---- MODULE Spec2Model ----
(***************************************************************************)
(* Download gatekeeper and telemetry pipeline of the venture sites         *)
(* (classes VentureAnalytics and DownloadManager).                         *)
(*                                                                         *)
(* One browser tab is modelled in full, and of a second tab of the same    *)
(* origin what it shares with the first: localStorage.                     *)
(* The event loop of a tab is single threaded: a task                      *)
(* (a click handler, the continuation of a settled fetch, a timer) runs    *)
(* with all the microtasks it queues before the next task starts, so each  *)
(* action below is one task, from its start to the next real suspension    *)
(* (a pending fetch).  The clock is in milliseconds from an arbitrary      *)
(* origin.                                                                 *)
(***************************************************************************)
EXTENDS Integers, Sequences, FiniteSets, Bags, TLC

VARIABLES
    env,            \* the environment of the run: signals, sinks, network, venture
    now,            \* Date.now()
    session,        \* the page load: its number and the time it started
    botScore,       \* DownloadManager.botScore
    rateLimitCount, \* DownloadManager.rateLimitCount
    storage,        \* localStorage 'download_rate_limit'
    conversions,    \* length of localStorage 'venture_conversions'
    buttons,        \* the buttons updateDownloadUI selects
    timers,         \* the pending setTimeout calls of updateDownloadUI
    clicks,         \* the number of calls of initiateDownload so far
    admitted,       \* the calls of this page load that passed both gates
    inflight,       \* the calls of initiateDownload suspended at an await (a bag)
    ended,          \* the call of initiateDownload that returned in the last step
    issued,         \* the tokens generateDownloadToken returned, with their inputs
    log,            \* the calls of sendAnalytics made outside initiateDownload
    downloads,      \* the clicks of startSecureDownload on its hidden link so far
    run,            \* the calls so far, over all page loads, that passed both gates
    peer            \* a second tab of the same origin, on the same localStorage

vars == <<env, now, session, botScore, rateLimitCount, storage, conversions,
          buttons, timers, clicks, admitted, inflight, ended, issued, log,
          downloads, run, peer>>

----------------------------------------------------------------------------
(* Bounds of the model *)

MaxAttempts == 4
MaxReloads == 1
MaxEmits == 2
TickMs == 40000
MaxTime == 80000

(* Constants of the program *)

rateLimitWindow == 60000
maxDownloadsPerWindow == 3
BotThreshold == 50
TokenLen == 32
SuccessRevertMs == 3000
ErrorRevertMs == 5000

----------------------------------------------------------------------------
(* Generic helpers *)

Min(a, b) == IF a < b THEN a ELSE b

RECURSIVE Concat(_)
Concat(ss) == IF ss = <<>> THEN <<>> ELSE Head(ss) \o Concat(Tail(ss))

----------------------------------------------------------------------------
(* Strings are sequences of character codes *)

RECURSIVE Digits(_)
\* Number.prototype.toString(): decimal digits of a natural number
Digits(n) == IF n < 10 THEN <<48 + n>> ELSE Digits(n \div 10) \o <<48 + (n % 10)>>

HexDigit(d) == IF d < 10 THEN 48 + d ELSE 87 + d

\* byte.toString(16).padStart(2, '0')
HexByte(b) == <<HexDigit(b \div 16), HexDigit(b % 16)>>

RECURSIVE HexString(_)
HexString(bytes) ==
    IF bytes = <<>> THEN <<>> ELSE HexByte(Head(bytes)) \o HexString(Tail(bytes))

StrVentureKey == <<123, 34, 118, 101, 110, 116, 117, 114, 101, 34, 58, 34>>
StrTimestampKey == <<34, 44, 34, 116, 105, 109, 101, 115, 116, 97, 109, 112, 34, 58>>
StrUserAgentKey == <<44, 34, 117, 115, 101, 114, 65, 103, 101, 110, 116, 34, 58, 34>>
StrSessionIdKey == <<34, 44, 34, 115, 101, 115, 115, 105, 111, 110, 73, 100, 34, 58, 34>>
StrNonceKey == <<34, 44, 34, 110, 111, 110, 99, 101, 34, 58, 34>>
StrClose == <<34, 125>>
StrSessionPrefix == <<115, 101, 115, 115, 105, 111, 110, 95>>
StrUnderscore == <<95>>

\* window.ventureConfig.name of two of the sites: "alpha", "Alpha Workspace"
Ventures == { <<97, 108, 112, 104, 97>>,
              <<65, 108, 112, 104, 97, 32, 87, 111, 114, 107, 115, 112, 97, 99, 101>> }

\* navigator.userAgent: "Mozilla/5.0"
UserAgent == <<77, 111, 122, 105, 108, 108, 97, 47, 53, 46, 48>>

\* Math.random().toString(36).substr(2, 9): "k3x9q2m1z"
SessionRandom == <<107, 51, 120, 57, 113, 50, 109, 49, 122>>

\* crypto.getRandomValues(new Uint8Array(16)): two of the possible draws
Nonces == { [i \in 1..16 |-> b] : b \in {0, 171} }

\* 'session_' + Date.now() + '_' + Math.random().toString(36).substr(2, 9)
GenerateSessionId(start) ==
    Concat(<<StrSessionPrefix, Digits(start), StrUnderscore, SessionRandom>>)

\* Array.from(array, byte => byte.toString(16).padStart(2, '0')).join('')
GenerateNonce(bytes) == HexString(bytes)

\* JSON.stringify({venture, timestamp, userAgent, sessionId, nonce})
TokenJson(venture, timestamp, sessionId, nonce) ==
    Concat(<<StrVentureKey, venture, StrTimestampKey, Digits(timestamp),
             StrUserAgentKey, UserAgent, StrSessionIdKey, sessionId,
             StrNonceKey, nonce, StrClose>>)

\* One character of btoa(bytes), as its index in the base64 alphabet: 62 is '+',
\* 63 is '/', and 64 stands for the padding character '='
Sextet(bytes, k) ==
    LET g == 3 * ((k - 1) \div 4)
        n == Len(bytes)
        b1 == bytes[g + 1]
        b2 == IF g + 2 <= n THEN bytes[g + 2] ELSE 0
        b3 == IF g + 3 <= n THEN bytes[g + 3] ELSE 0
    IN CASE (k - 1) % 4 = 0 -> b1 \div 4
         [] (k - 1) % 4 = 1 -> (b1 % 4) * 16 + b2 \div 16
         [] (k - 1) % 4 = 2 -> IF g + 2 <= n THEN (b2 % 16) * 4 + b3 \div 64 ELSE 64
         [] (k - 1) % 4 = 3 -> IF g + 3 <= n THEN b3 % 64 ELSE 64

Btoa(bytes) == [k \in 1..(4 * ((Len(bytes) + 2) \div 3)) |-> Sextet(bytes, k)]

RECURSIVE StripTake(_, _, _, _)
\* The first n characters of s from position i on, the characters of drop left out
StripTake(s, i, drop, n) ==
    IF n = 0 \/ i > Len(s) THEN <<>>
    ELSE IF s[i] \in drop THEN StripTake(s, i + 1, drop, n)
    ELSE <<s[i]>> \o StripTake(s, i + 1, drop, n - 1)

\* btoa(tokenString).replace(/[+\/=]/g, '').substring(0, 32)
TokenOf(json) == StripTake(Btoa(json), 1, {62, 63, 64}, TokenLen)

GenerateDownloadToken(venture, timestamp, sessionId, nonceBytes) ==
    TokenOf(TokenJson(venture, timestamp, sessionId, GenerateNonce(nonceBytes)))

----------------------------------------------------------------------------
(* BotHeuristicScorer *)

UaPatterns == {"headless", "phantom", "selenium", "webdriver", "bot", "crawler", "spider"}

\* The text of each pattern, as character codes
PatternCodes ==
    [p \in UaPatterns |->
        CASE p = "headless" -> <<104, 101, 97, 100, 108, 101, 115, 115>>
          [] p = "phantom" -> <<112, 104, 97, 110, 116, 111, 109>>
          [] p = "selenium" -> <<115, 101, 108, 101, 110, 105, 117, 109>>
          [] p = "webdriver" -> <<119, 101, 98, 100, 114, 105, 118, 101, 114>>
          [] p = "bot" -> <<98, 111, 116>>
          [] p = "crawler" -> <<99, 114, 97, 119, 108, 101, 114>>
          [] p = "spider" -> <<115, 112, 105, 100, 101, 114>>]

\* The flag i of the patterns: an upper-case letter matches as its lower-case one
Lower(ch) == IF ch \in 65..90 THEN ch + 32 ELSE ch

\* pattern.test(userAgent): the pattern occurs somewhere in the user agent
Contains(s, p) ==
    \E i \in 1..(Len(s) - Len(p) + 1) :
        \A k \in 1..Len(p) : Lower(s[i + k - 1]) = p[k]

\* The patterns the forEach of calculateBotScore finds in the user agent
UaHits(ua) == {p \in UaPatterns : Contains(ua, PatternCodes[p])}

Weight(b, w) == IF b THEN w ELSE 0

\* A scorer without Math.min
CalculateBotScore_Unclamped(e) ==
    Weight(e.webdriver, 20) + Weight(e.phantom, 30) + Weight(e.callPhantom, 30)
    + 15 * Cardinality(UaHits(e.ua))
    + Weight(e.noRAF, 10) + Weight(e.noLocalStorage, 10) + Weight(e.noCanvas, 15)

\* e: the environment signals read at load time
CalculateBotScore(e) ==
    Min(Weight(e.webdriver, 20) + Weight(e.phantom, 30) + Weight(e.callPhantom, 30)
        + 15 * Cardinality(UaHits(e.ua))
        + Weight(e.noRAF, 10) + Weight(e.noLocalStorage, 10) + Weight(e.noCanvas, 15),
        100)

Clean == [webdriver |-> FALSE, phantom |-> FALSE, callPhantom |-> FALSE, ua |-> UserAgent,
          noRAF |-> FALSE, noLocalStorage |-> FALSE, noCanvas |-> FALSE,
          hasFetch |-> TRUE, honeypot |-> FALSE, hasCrypto |-> TRUE]

----------------------------------------------------------------------------
(* Gates *)

\* A check that scores the environment again at every attempt
BotScoreAtCheck_Rescored(score, e) == CalculateBotScore(e)

\* passesSecurityChecks reads this.botScore, the score computed when the page was
\* loaded; it does not look at the signals again
BotScoreAtCheck(score, e) == score

\* A gate that blocks at the threshold too: botScore >= 50
PassesSecurityChecks_AtOrAbove(score, e) ==
    ~(score >= BotThreshold) /\ e.hasFetch /\ ~e.honeypot

PassesSecurityChecks(score, e) ==
    ~(score > BotThreshold) /\ e.hasFetch /\ ~e.honeypot

\* The checks of the two gates an attempt evaluates, in the order of evaluation:
\* passesSecurityChecks returns at the first check that fails, and checkRateLimit
\* is called only when passesSecurityChecks returned true
SecurityChecksEvaluated(score, e) ==
    IF score > BotThreshold THEN <<"botScore">>
    ELSE IF ~e.hasFetch THEN <<"botScore", "environment">>
    ELSE <<"botScore", "environment", "honeypot">>

ChecksEvaluated(score, e) ==
    SecurityChecksEvaluated(score, e)
    \o (IF PassesSecurityChecks(score, e) THEN <<"rateLimit">> ELSE <<>>)

\* A check that records the attempt before it compares
CheckRateLimit_Counting(count, stor) ==
    [ok |-> count < maxDownloadsPerWindow, count |-> count + 1,
     stor |-> [stor EXCEPT !.present = TRUE, !.count = count + 1]]

\* checkRateLimit reads the in-memory count only; it changes neither the count
\* nor the persisted record
CheckRateLimit(count, stor) ==
    [ok |-> count < maxDownloadsPerWindow, count |-> count, stor |-> stor]

\* The persisted record 'download_rate_limit'; present = FALSE when the key is absent
NoRecord == [present |-> FALSE, count |-> 0, windowStart |-> 0]

\* now - undefined is NaN, and NaN > w is false: an absent record never expires
WindowExpired(stor, t) == stor.present /\ t - stor.windowStart > rateLimitWindow

\* A page load that keeps the record it finds
InitRateLimiting_NoReset(stor, t) == [count |-> stor.count, stor |-> stor]

InitRateLimiting(stor, t) ==
    IF WindowExpired(stor, t)
    THEN [count |-> 0, stor |-> [present |-> TRUE, count |-> 0, windowStart |-> t]]
    ELSE [count |-> stor.count, stor |-> stor]

\* localStorage.setItem of the rate-limit record: mode "ok", or "unwritable" when
\* setItem throws (quota exceeded, storage disabled) and the record stays as it was
SetItemThrows(mode) == mode = "unwritable"

SetItem(mode, old, new) == IF SetItemThrows(mode) THEN old ELSE new

\* updateConversionMetrics on the array 'venture_conversions' of n records: mode
\* "absent" (no key: '[]' is parsed), "populated", "unparsable" (JSON.parse
\* throws) or "unwritable" (setItem throws)
UpdateConversionMetrics(mode, n) ==
    IF mode \in {"unparsable", "unwritable"}
    THEN [threw |-> TRUE, n |-> n]
    ELSE [threw |-> FALSE, n |-> n + 1]

\* A record that is read back and incremented in localStorage
UpdateRateLimit_Shared(count, t) ==
    [count |-> count + 1,
     stor |-> [present |-> TRUE, count |-> storage.count + 1, windowStart |-> t]]

UpdateRateLimit(count, t) ==
    [count |-> count + 1,
     stor |-> [present |-> TRUE, count |-> count + 1, windowStart |-> t]]

----------------------------------------------------------------------------
(* TelemetryDispatcher.  s: the sinks of the page, each "absent", "ok" or     *)
(* "throws": s.cf is window.cloudflare.analytics.track, s.gtag is window.gtag,*)
(* s.beacon is navigator.sendBeacon.                                          *)

SinkModes == {"absent", "ok", "throws"}
AllSinks == [cf : SinkModes, gtag : SinkModes, beacon : SinkModes]

\* sendAnalytics without its try / catch: the sink's exception reaches the caller
SendAnalyticsOutcome_NoCatch(threw) == IF threw THEN "rejected" ELSE "resolved"

\* try { ... } catch (error) { console.warn(...) }: how the promise of
\* sendAnalytics settles once its body has run or thrown
SendAnalyticsOutcome(threw) == "resolved"

\* sendToCloudflare
SendToCloudflare(s) == [tried |-> s.cf # "absent", threw |-> s.cf = "throws"]

\* if (window.gtag) sendToGoogleAnalytics(data)
SendToGoogleAnalytics(s) == [tried |-> s.gtag # "absent", threw |-> s.gtag = "throws"]

\* The body of sendAnalytics up to the fetch of sendToCustomEndpoint: the sinks
\* it has called, and "pending" when the fetch was issued
SendAnalyticsSync(s) ==
    LET c == SendToCloudflare(s)
        g == IF c.threw THEN [tried |-> FALSE, threw |-> FALSE]
             ELSE SendToGoogleAnalytics(s)
        threw == c.threw \/ g.threw
    IN [tried |-> (IF c.tried THEN {"cloudflare"} ELSE {})
                  \cup (IF g.tried THEN {"gtag"} ELSE {})
                  \cup (IF threw THEN {} ELSE {"endpoint"}),
        status |-> IF threw THEN SendAnalyticsOutcome(TRUE) ELSE "pending"]

\* sendToCustomEndpoint once its fetch settles: a rejection falls back to
\* sendBeacon when there is one, and sendBeacon is called inside the catch block,
\* so what it throws leaves sendToCustomEndpoint
SendToCustomEndpointSettle(s, outcome) ==
    IF outcome = "ok" THEN [tried |-> {}, threw |-> FALSE]
    ELSE IF s.beacon = "absent" THEN [tried |-> {}, threw |-> FALSE]
    ELSE [tried |-> {"beacon"}, threw |-> s.beacon = "throws"]

\* A record of the log: one call of sendAnalytics
NewEntry(ev, ctx, s) ==
    LET r == SendAnalyticsSync(s)
    IN [ev |-> ev, ctx |-> ctx, tried |-> r.tried, status |-> r.status]

\* sendAnalytics letting what sendToCustomEndpoint throws through to its caller
SettleEntry_Propagating(d, s, outcome) ==
    LET e == SendToCustomEndpointSettle(s, outcome)
    IN [d EXCEPT !.tried = @ \cup e.tried,
                 !.status = IF e.threw THEN "rejected" ELSE "resolved"]

\* The rest of sendAnalytics, from the settling of the fetch on
SettleEntry(d, s, outcome) ==
    LET e == SendToCustomEndpointSettle(s, outcome)
    IN [d EXCEPT !.tried = @ \cup e.tried, !.status = SendAnalyticsOutcome(e.threw)]

----------------------------------------------------------------------------
(* The controls.  updateDownloadUI selects '#primary-download, #download-btn';  *)
(* the [data-download] links start attempts too but are not among the controls  *)
(* it updates.                                                                  *)

ButtonOrder == <<"primary-download">>
Buttons == {ButtonOrder[i] : i \in 1..Len(ButtonOrder)}
Links == {"data-download"}
Controls == Buttons \cup Links

IdleButton == [disabled |-> FALSE, label |-> "idle", classes |-> {}]

\* What a control shows.  No code changes a [data-download] link: it stays as it
\* was rendered, enabled and with its own text.
ControlState(bs, c) == IF c \in Buttons THEN bs[c] ELSE IdleButton

\* The switch of updateDownloadUI, for one button
ButtonAfter(b, state) ==
    CASE state = "preparing" ->
            [disabled |-> TRUE, label |-> "preparing",
             classes |-> b.classes \cup {"downloading"}]
      [] state = "success" ->
            [b EXCEPT !.label = "success", !.classes = @ \cup {"success"}]
      [] state = "error" ->
            [disabled |-> FALSE, label |-> "error",
             classes |-> b.classes \cup {"error"}]

UpdateDownloadUI(bs, state) == [b \in Buttons |-> ButtonAfter(bs[b], state)]

\* The setTimeout calls of updateDownloadUI, one per button (a bag of timers)
TimersFor(state, t) ==
    CASE state = "success" ->
            SetToBag({[btn |-> b, kind |-> "success", due |-> t + SuccessRevertMs] :
                        b \in Buttons})
      [] state = "error" ->
            SetToBag({[btn |-> b, kind |-> "error", due |-> t + ErrorRevertMs] :
                        b \in Buttons})
      [] OTHER -> EmptyBag

\* The callbacks of the two timers
ButtonAfterTimer(b, kind) ==
    IF kind = "success"
    THEN [disabled |-> FALSE, label |-> "idle",
          classes |-> b.classes \ {"downloading", "success"}]
    ELSE [b EXCEPT !.label = "idle", !.classes = @ \ {"downloading", "error"}]

\* Timers run in the order of their due time
IsNextTimer(tm) ==
    /\ tm.due <= now
    /\ \A other \in BagToSet(timers) : other.due >= tm.due

----------------------------------------------------------------------------
(* The environments a run starts in: the fault-free one, and one departure    *)
(* from it at a time.  primary is what the fetch of /api/analytics does ("ok",*)
(* "reject" or "hang": it never settles), probe what the HEAD request of      *)
(* verifyDownloadStart does ("responds" or "hang"), prior the record an       *)
(* earlier visit left in localStorage, convStore and rateStore the state of   *)
(* the keys 'venture_conversions' and 'download_rate_limit', budget the number*)
(* of clicks the visitor makes at most.                                       *)

\* An earlier visit used the whole quota just before this page was loaded
Exhausted == [present |-> TRUE, count |-> maxDownloadsPerWindow, windowStart |-> 0]

VentureAlpha == <<97, 108, 112, 104, 97>>

FaultFree ==
    [snap |-> Clean,
     sinks |-> [cf |-> "ok", gtag |-> "ok", beacon |-> "ok"],
     primary |-> "ok", probe |-> "responds", venture |-> VentureAlpha,
     prior |-> NoRecord, convStore |-> "absent", rateStore |-> "ok",
     budget |-> MaxAttempts]

Environments ==
    { FaultFree,
      [FaultFree EXCEPT !.snap.webdriver = TRUE, !.snap.phantom = TRUE],
      [FaultFree EXCEPT !.snap.phantom = TRUE, !.snap.callPhantom = TRUE],
      [FaultFree EXCEPT !.snap.honeypot = TRUE],
      [FaultFree EXCEPT !.snap.hasFetch = FALSE],
      [FaultFree EXCEPT !.snap.hasCrypto = FALSE],
      [FaultFree EXCEPT !.sinks.cf = "throws"],
      [FaultFree EXCEPT !.sinks.cf = "absent", !.sinks.gtag = "throws"],
      [FaultFree EXCEPT !.primary = "reject"],
      [FaultFree EXCEPT !.primary = "reject", !.sinks.beacon = "throws"],
      [FaultFree EXCEPT !.primary = "reject", !.sinks.beacon = "absent"],
      [FaultFree EXCEPT !.primary = "hang"],
      [FaultFree EXCEPT !.probe = "hang"],
      [FaultFree EXCEPT !.prior = Exhausted],
      [FaultFree EXCEPT !.prior = Exhausted,
                        !.snap.phantom = TRUE, !.snap.callPhantom = TRUE] }

----------------------------------------------------------------------------
(* DownloadManager.initiateDownload                                           *)

Source(c) == IF c \in Buttons THEN "primary_cta" ELSE "secondary"

\* One call of initiateDownload: the gate checks it evaluated (checks), where it
\* stands (pc), the advisory it showed, the token it minted, how
\* the fetch of its download_started event settled (tele), how the probe settled,
\* whether the hidden download link was clicked (started), the calls of
\* sendAnalytics it made (events), and the steps it took, in the order it took
\* them (order)
NewAttempt(c) ==
    [source |-> Source(c), pc |-> "idle", advisory |-> "none",
     checks |-> ChecksEvaluated(BotScoreAtCheck(botScore, env.snap), env.snap),
     token |-> <<>>, tele |-> "none", probe |-> "none", started |-> FALSE,
     events |-> <<>>, order |-> <<"gates">>]

NoAttempt ==
    [source |-> "none", pc |-> "none", advisory |-> "none", checks |-> <<>>,
     token |-> <<>>, tele |-> "none", probe |-> "none", started |-> FALSE,
     events |-> <<>>, order |-> <<>>]

InFlight(pc) == pc \in {"telemetry", "verifying"}

\* The part of the state one call's steps work on
Flow(att) == [att |-> att, buttons |-> buttons, timers |-> timers,
              conversions |-> conversions, downloads |-> downloads]

\* catch (error) of initiateDownload: trackError, updateDownloadUI('error')
Catch(f) ==
    [f EXCEPT !.att.events = Append(@, NewEntry("error", "download_manager", env.sinks)),
              !.buttons = UpdateDownloadUI(@, "error"),
              !.timers = @ (+) TimersFor("error", now),
              !.att.pc = "error"]

\* initiateDownload from the settling of sendAnalytics(download_started) on:
\* updateConversionMetrics, buildSecureDownloadUrl, startSecureDownload up to the
\* HEAD request of verifyDownloadStart
AfterTrackDownload(f, status) ==
    LET u == UpdateConversionMetrics(env.convStore, f.conversions)
    IN IF status = "resolved" /\ ~u.threw
       THEN [f EXCEPT !.conversions = u.n, !.downloads = @ + 1,
                      !.att.started = TRUE, !.att.pc = "verifying"]
       ELSE Catch(f)

\* A call that does not wait for trackDownload
Admit_NotAwaited(f, nonce) ==
    LET entry == NewEntry("download_started", f.att.source, env.sinks)
        p == [f EXCEPT !.buttons = UpdateDownloadUI(@, "preparing"),
                       !.att.order = Append(@, "preparing")]
        g == [p EXCEPT !.att.token = GenerateDownloadToken(env.venture, now,
                                        GenerateSessionId(session.start), nonce),
                       !.att.events = Append(@, entry),
                       !.att.order = @ \o <<"token", "telemetry">>]
    IN IF ~env.snap.hasCrypto
       THEN Catch(p)
       ELSE AfterTrackDownload([g EXCEPT !.att.tele = "skipped"], "resolved")

\* A call that mints its token before it shows the preparing state
Admit_TokenFirst(f, nonce) ==
    LET entry == NewEntry("download_started", f.att.source, env.sinks)
        g == [f EXCEPT !.att.token = GenerateDownloadToken(env.venture, now,
                                        GenerateSessionId(session.start), nonce),
                       !.buttons = UpdateDownloadUI(@, "preparing"),
                       !.att.events = Append(@, entry),
                       !.att.order = @ \o <<"token", "preparing", "telemetry">>]
    IN IF ~env.snap.hasCrypto
       THEN Catch(f)
       ELSE IF entry.status = "pending"
       THEN [g EXCEPT !.att.pc = "telemetry"]
       ELSE AfterTrackDownload([g EXCEPT !.att.tele = "skipped"], entry.status)

\* The steps of initiateDownload up to trackDownload, in the order of its lines
StepOrder == <<"gates", "preparing", "token", "telemetry">>

\* initiateDownload from updateDownloadUI('preparing') to its first pending fetch.
\* Without window.crypto generateNonce throws a ReferenceError, the promise of
\* generateDownloadToken is rejected and the await throws into the catch block.
Admit(f, nonce) ==
    LET entry == NewEntry("download_started", f.att.source, env.sinks)
        p == [f EXCEPT !.buttons = UpdateDownloadUI(@, "preparing"),
                       !.att.order = Append(@, "preparing")]
        g == [p EXCEPT !.att.token = GenerateDownloadToken(env.venture, now,
                                        GenerateSessionId(session.start), nonce),
                       !.att.events = Append(@, entry),
                       !.att.order = @ \o <<"token", "telemetry">>]
    IN IF ~env.snap.hasCrypto
       THEN Catch(p)
       ELSE IF entry.status = "pending"
       THEN [g EXCEPT !.att.pc = "telemetry"]
       ELSE AfterTrackDownload([g EXCEPT !.att.tele = "skipped"], entry.status)

\* The call goes on to its next await, or returns
SetFlow(old, f) ==
    /\ inflight' = (inflight (-) old)
                    (+) (IF InFlight(f.att.pc) THEN SetToBag({f.att}) ELSE EmptyBag)
    /\ ended' = IF InFlight(f.att.pc) THEN NoAttempt ELSE f.att
    /\ buttons' = f.buttons
    /\ timers' = f.timers
    /\ conversions' = f.conversions
    /\ downloads' = f.downloads

\* A rejection that comes after the download_started event was sent
Blocked_Tracked(c, pc, advisory) ==
    [NewAttempt(c) EXCEPT !.pc = pc, !.advisory = advisory,
                          !.events = <<NewEntry("download_started", Source(c), env.sinks)>>]

\* A call that a gate rejects: showSecurityBlockMessage / showRateLimitMessage,
\* return false
Blocked(c, pc, advisory) == [NewAttempt(c) EXCEPT !.pc = pc, !.advisory = advisory]

\* A click on a control.  A disabled button dispatches no click event.
Click(c, nonce) ==
    /\ clicks < env.budget
    /\ c \in Buttons => ~buttons[c].disabled
    /\ clicks' = clicks + 1
    /\ botScore' = BotScoreAtCheck(botScore, env.snap)
    /\ LET rl == CheckRateLimit(rateLimitCount, storage)
       IN IF ~PassesSecurityChecks(botScore', env.snap)
          THEN /\ SetFlow(EmptyBag, Flow(Blocked(c, "blockedSecurity", "security")))
               /\ UNCHANGED <<rateLimitCount, storage, admitted, run>>
          ELSE /\ rateLimitCount' = rl.count
               /\ storage' = rl.stor
               /\ IF ~rl.ok
                  THEN /\ SetFlow(EmptyBag, Flow(Blocked(c, "blockedRate", "rateLimit")))
                       /\ UNCHANGED <<admitted, run>>
                  ELSE /\ SetFlow(EmptyBag, Admit(Flow(NewAttempt(c)), nonce))
                       /\ admitted' = admitted + 1
                       /\ run' = [admitted |-> run.admitted + 1]
    /\ UNCHANGED <<env, now, session, issued, log, peer>>

\* The fetch of /api/analytics for the call's download_started event settles
TelemetrySettles(att) ==
    /\ BagIn(att, inflight)
    /\ att.pc = "telemetry"
    /\ env.primary # "hang"
    /\ LET d == SettleEntry(att.events[1], env.sinks, env.primary)
           f == [Flow(att) EXCEPT
                    !.att.events = [@ EXCEPT ![1] = d],
                    !.att.tele = IF env.primary = "ok" THEN "ok" ELSE "rejected"]
       IN SetFlow(SetToBag({att}), AfterTrackDownload(f, d.status))
    /\ UNCHANGED <<env, now, session, botScore, rateLimitCount, storage,
                   clicks, admitted, issued, log, run, peer>>

\* The HEAD request of verifyDownloadStart settles: a response that is ok, a
\* response that is not, or a rejection
ProbeSettles(att, outcome) ==
    /\ BagIn(att, inflight)
    /\ att.pc = "verifying"
    /\ env.probe # "hang"
    /\ IF outcome = "ok"
       THEN LET r == UpdateRateLimit(rateLimitCount, now)
                v == [Flow(att) EXCEPT
                        !.att.events = Append(@, NewEntry("engagement",
                                                "download_verified", env.sinks)),
                        !.att.probe = "ok"]
                f == [v EXCEPT
                        !.buttons = UpdateDownloadUI(@, "success"),
                        !.timers = @ (+) TimersFor("success", now),
                        !.att.pc = "success"]
            IN /\ SetFlow(SetToBag({att}),
                          IF SetItemThrows(env.rateStore) THEN Catch(v) ELSE f)
               /\ rateLimitCount' = r.count
               /\ storage' = SetItem(env.rateStore, storage, r.stor)
       ELSE LET f == [Flow(att) EXCEPT
                        !.att.events = Append(@, NewEntry("error",
                                                "download_verification", env.sinks)),
                        !.att.probe = "failed"]
            IN /\ SetFlow(SetToBag({att}), Catch(f))
               /\ UNCHANGED <<rateLimitCount, storage>>
    /\ UNCHANGED <<env, now, session, botScore, clicks, admitted, issued, log,
                   run, peer>>

\* The next due timer of updateDownloadUI runs
TimerFires(tm) ==
    /\ BagIn(tm, timers)
    /\ IsNextTimer(tm)
    /\ buttons' = [buttons EXCEPT ![tm.btn] = ButtonAfterTimer(@, tm.kind)]
    /\ timers' = timers (-) SetToBag({tm})
    /\ ended' = NoAttempt
    /\ UNCHANGED <<env, now, session, botScore, rateLimitCount, storage, conversions,
                   clicks, admitted, inflight, issued, log, downloads, run, peer>>

\* Time passes; the timers that are due run first
Tick ==
    /\ now + TickMs <= MaxTime
    /\ \A tm \in BagToSet(timers) : tm.due > now
    /\ now' = now + TickMs
    /\ ended' = NoAttempt
    /\ UNCHANGED <<env, session, botScore, rateLimitCount, storage, conversions,
                   buttons, timers, clicks, admitted, inflight, issued, log,
                   downloads, run, peer>>

\* The page is loaded again: new DownloadManager, init(), setupSecurityChecks().
\* The calls of the old page end with it.
Reload ==
    /\ session.id < MaxReloads
    /\ session' = [id |-> session.id + 1, start |-> now]
    /\ botScore' = CalculateBotScore(env.snap)
    /\ LET r == InitRateLimiting(storage, now)
       IN /\ rateLimitCount' = r.count
          /\ storage' = SetItem(env.rateStore, storage, r.stor)
    /\ buttons' = [b \in Buttons |-> IdleButton]
    /\ timers' = EmptyBag
    /\ inflight' = EmptyBag
    /\ ended' = NoAttempt
    /\ admitted' = 0
    /\ UNCHANGED <<env, now, conversions, clicks, issued, log, downloads, run, peer>>

\* No second tab is open
NoPeer == [open |-> FALSE, count |-> 0, telemetry |-> 0, verifying |-> 0, admitted |-> 0]

\* The state of a page just loaded in environment e
Loaded(e) ==
    /\ env = e
    /\ now = 0
    /\ session = [id |-> 0, start |-> 0]
    /\ botScore = CalculateBotScore(e.snap)
    /\ rateLimitCount = InitRateLimiting(e.prior, 0).count
    /\ storage = SetItem(e.rateStore, e.prior, InitRateLimiting(e.prior, 0).stor)
    /\ conversions = IF e.convStore = "populated" THEN 1 ELSE 0
    /\ buttons = [b \in Buttons |-> IdleButton]
    /\ timers = EmptyBag
    /\ clicks = 0
    /\ admitted = 0
    /\ inflight = EmptyBag
    /\ ended = NoAttempt
    /\ issued = {}
    /\ log = <<>>
    /\ downloads = 0
    /\ run = [admitted |-> 0]
    /\ peer = NoPeer

Init == \E e \in Environments : Loaded(e)

Next ==
    \/ \E c \in Controls, nonce \in Nonces : Click(c, nonce)
    \/ \E att \in BagToSet(inflight) : TelemetrySettles(att)
    \/ \E att \in BagToSet(inflight), outcome \in {"ok", "notOk", "reject"} :
          ProbeSettles(att, outcome)
    \/ \E tm \in BagToSet(timers) : TimerFires(tm)
    \/ Tick
    \/ Reload

Spec == Init /\ [][Next]_vars

----------------------------------------------------------------------------
(* The same program with the scheduling the event loop guarantees: the        *)
(* continuation of a settled fetch runs, and a due timer runs.  A fetch that  *)
(* hangs never settles, and nothing makes the visitor click or reload.        *)

FairSpec ==
    /\ Spec
    /\ WF_vars(\E att \in BagToSet(inflight) : TelemetrySettles(att))
    /\ WF_vars(\E att \in BagToSet(inflight), outcome \in {"ok", "notOk", "reject"} :
                 ProbeSettles(att, outcome))
    /\ WF_vars(\E tm \in BagToSet(timers) : TimerFires(tm))

----------------------------------------------------------------------------
(* The dispatcher alone, for every configuration of the sinks: the page calls *)
(* sendAnalytics (trackPageView, trackEngagement, trackPerformance,           *)
(* reportSecurityEvent), and the fetches of /api/analytics settle in any      *)
(* order, each fulfilled or rejected.                                         *)

PageEvents == {"page_view", "engagement"}

Emit(ev) ==
    /\ Len(log) < MaxEmits
    /\ log' = Append(log, NewEntry(ev, "", env.sinks))
    /\ UNCHANGED <<env, now, session, botScore, rateLimitCount, storage, conversions,
                   buttons, timers, clicks, admitted, inflight, ended, issued,
                   downloads, run, peer>>

DispatchSettles(i, outcome) ==
    /\ i \in DOMAIN log
    /\ log[i].status = "pending"
    /\ log' = [log EXCEPT ![i] = SettleEntry(@, env.sinks, outcome)]
    /\ UNCHANGED <<env, now, session, botScore, rateLimitCount, storage, conversions,
                   buttons, timers, clicks, admitted, inflight, ended, issued,
                   downloads, run, peer>>

InitDispatch == \E s \in AllSinks : Loaded([FaultFree EXCEPT !.sinks = s])

NextDispatch ==
    \/ \E ev \in PageEvents : Emit(ev)
    \/ \E i \in DOMAIN log, outcome \in {"ok", "reject"} : DispatchSettles(i, outcome)

SpecDispatch == InitDispatch /\ [][NextDispatch]_vars

----------------------------------------------------------------------------
(* The token issuer alone: generateDownloadToken is called at any time of a   *)
(* page load, for each venture and each draw of the nonce.                    *)

IssueToken(nonce) ==
    /\ issued' = issued \cup
          {[session |-> session.id, at |-> now, nonce |-> nonce,
            token |-> GenerateDownloadToken(env.venture, now,
                          GenerateSessionId(session.start), nonce)]}
    /\ UNCHANGED <<env, now, session, botScore, rateLimitCount, storage, conversions,
                   buttons, timers, clicks, admitted, inflight, ended, log,
                   downloads, run, peer>>

InitToken == \E v \in Ventures : Loaded([FaultFree EXCEPT !.venture = v])

NextToken ==
    \/ \E nonce \in Nonces : IssueToken(nonce)
    \/ Tick
    \/ Reload

SpecToken == InitToken /\ [][NextToken]_vars

----------------------------------------------------------------------------
(* The download flow in an environment whose signals change while the page is *)
(* open: a script sets or removes window.phantom and window.callPhantom.      *)

SignalSnapshots == {Clean, [Clean EXCEPT !.phantom = TRUE, !.callPhantom = TRUE]}

\* The signals change; no code of the page runs
SignalsChange(snap) ==
    /\ snap # env.snap
    /\ env' = [env EXCEPT !.snap = snap]
    /\ ended' = NoAttempt
    /\ UNCHANGED <<now, session, botScore, rateLimitCount, storage, conversions,
                   buttons, timers, clicks, admitted, inflight, issued, log,
                   downloads, run, peer>>

InitSignals == \E snap \in SignalSnapshots : Loaded([FaultFree EXCEPT !.snap = snap])

NextSignals ==
    \/ Next
    \/ \E snap \in SignalSnapshots : SignalsChange(snap)

SpecSignals == InitSignals /\ [][NextSignals]_vars

----------------------------------------------------------------------------
(* The scorer alone, for every combination of the signals it reads: the page  *)
(* is loaded, and loaded again, in the same environment.                      *)

\* navigator.userAgent: "Mozilla/5.0", "HeadlessChrome", "PhantomJS", "Googlebot", "selenium webdriver", "SpiderBot crawler", "robot bot"
UserAgents ==
    { <<77, 111, 122, 105, 108, 108, 97, 47, 53, 46, 48>>,
      <<72, 101, 97, 100, 108, 101, 115, 115, 67, 104, 114, 111, 109, 101>>,
      <<80, 104, 97, 110, 116, 111, 109, 74, 83>>,
      <<71, 111, 111, 103, 108, 101, 98, 111, 116>>,
      <<115, 101, 108, 101, 110, 105, 117, 109, 32, 119, 101, 98, 100, 114, 105, 118, 101, 114>>,
      <<83, 112, 105, 100, 101, 114, 66, 111, 116, 32, 99, 114, 97, 119, 108, 101, 114>>,
      <<114, 111, 98, 111, 116, 32, 98, 111, 116>> }

Snapshots ==
    [webdriver : BOOLEAN, phantom : BOOLEAN, callPhantom : BOOLEAN, ua : UserAgents,
     noRAF : BOOLEAN, noLocalStorage : BOOLEAN, noCanvas : BOOLEAN,
     hasFetch : {TRUE}, honeypot : {FALSE}, hasCrypto : {TRUE}]

InitScorer == \E snap \in Snapshots : Loaded([FaultFree EXCEPT !.snap = snap])

NextScorer ==
    \/ Reload
    \/ Tick

SpecScorer == InitScorer /\ [][NextScorer]_vars

----------------------------------------------------------------------------
(* The download flow for every state of localStorage: the conversion array    *)
(* absent, populated, unparsable or unwritable, and the rate-limit record     *)
(* writable or not.                                                           *)

ConvStores == {"absent", "populated", "unparsable", "unwritable"}
RateStores == {"ok", "unwritable"}

InitStorage ==
    \E c \in ConvStores, r \in RateStores :
        Loaded([FaultFree EXCEPT !.convStore = c, !.rateStore = r])

SpecStorage == InitStorage /\ [][Next]_vars

----------------------------------------------------------------------------
(* Two tabs of the same origin.  The second tab runs the same page on the     *)
(* same localStorage; of its DownloadManager the model keeps the in-memory    *)
(* count, the number of its calls of initiateDownload that wait for the fetch *)
(* of their download_started event (telemetry) and for the HEAD probe         *)
(* (verifying), and the number that passed both gates.                        *)

\* The second tab is opened: constructor, init, setupSecurityChecks
PeerOpens ==
    /\ ~peer.open
    /\ LET r == InitRateLimiting(storage, now)
       IN /\ peer' = [open |-> TRUE, count |-> r.count, telemetry |-> 0,
                      verifying |-> 0, admitted |-> 0]
          /\ storage' = SetItem(env.rateStore, storage, r.stor)
    /\ ended' = NoAttempt
    /\ UNCHANGED <<env, now, session, botScore, rateLimitCount, conversions, buttons,
                   timers, clicks, admitted, inflight, issued, log, downloads, run>>

\* A click on a [data-download] link of the second tab: initiateDownload up to
\* its first pending fetch
PeerClick ==
    /\ peer.open
    /\ clicks < env.budget
    /\ clicks' = clicks + 1
    /\ LET entry == NewEntry("download_started", "secondary", env.sinks)
           u == UpdateConversionMetrics(env.convStore, conversions)
       IN IF /\ PassesSecurityChecks(CalculateBotScore(env.snap), env.snap)
             /\ CheckRateLimit(peer.count, storage).ok
          THEN IF ~env.snap.hasCrypto
               THEN /\ peer' = [peer EXCEPT !.admitted = @ + 1]
                    /\ UNCHANGED conversions
               ELSE IF entry.status = "pending"
               THEN /\ peer' = [peer EXCEPT !.admitted = @ + 1, !.telemetry = @ + 1]
                    /\ UNCHANGED conversions
               ELSE /\ peer' = [peer EXCEPT !.admitted = @ + 1,
                                            !.verifying = IF u.threw THEN @ ELSE @ + 1]
                    /\ conversions' = u.n
          ELSE UNCHANGED <<peer, conversions>>
    /\ ended' = NoAttempt
    /\ UNCHANGED <<env, now, session, botScore, rateLimitCount, storage, buttons,
                   timers, admitted, inflight, issued, log, downloads, run>>

\* The fetch of /api/analytics of a call of the second tab settles; sendAnalytics
\* resolves, updateConversionMetrics and startSecureDownload run
PeerTelemetrySettles ==
    /\ peer.telemetry > 0
    /\ env.primary # "hang"
    /\ LET u == UpdateConversionMetrics(env.convStore, conversions)
       IN /\ peer' = [peer EXCEPT !.telemetry = @ - 1,
                                  !.verifying = IF u.threw THEN @ ELSE @ + 1]
          /\ conversions' = u.n
    /\ ended' = NoAttempt
    /\ UNCHANGED <<env, now, session, botScore, rateLimitCount, storage, buttons,
                   timers, clicks, admitted, inflight, issued, log, downloads, run>>

\* The HEAD probe of a call of the second tab settles
PeerProbeSettles(outcome) ==
    /\ peer.verifying > 0
    /\ env.probe # "hang"
    /\ IF outcome = "ok"
       THEN LET r == UpdateRateLimit(peer.count, now)
            IN /\ peer' = [peer EXCEPT !.verifying = @ - 1, !.count = r.count]
               /\ storage' = SetItem(env.rateStore, storage, r.stor)
       ELSE /\ peer' = [peer EXCEPT !.verifying = @ - 1]
            /\ UNCHANGED storage
    /\ ended' = NoAttempt
    /\ UNCHANGED <<env, now, session, botScore, rateLimitCount, conversions, buttons,
                   timers, clicks, admitted, inflight, issued, log, downloads, run>>

InitTabs == Loaded(FaultFree)

NextTabs ==
    \/ Next
    \/ PeerOpens
    \/ PeerClick
    \/ PeerTelemetrySettles
    \/ \E outcome \in {"ok", "notOk", "reject"} : PeerProbeSettles(outcome)

SpecTabs == InitTabs /\ [][NextTabs]_vars

----------------------------------------------------------------------------
(* The download flow of a visitor who comes back: an earlier visit, one tick  *)
(* before this page load, left a rate-limit record with its window open, and  *)
(* the visitor clicks up to twice the quota.                                  *)

BurstSize == 2 * maxDownloadsPerWindow

EarlierVisit == [present |-> TRUE, count |-> 0, windowStart |-> 0 - TickMs]

InitBurst == Loaded([FaultFree EXCEPT !.prior = EarlierVisit, !.budget = BurstSize])

SpecBurst == InitBurst /\ [][Next]_vars

\* The signals of calculateBotScore that a snapshot matches, and their weights
SignalWeight ==
    [webdriver |-> 20, phantom |-> 30, callPhantom |-> 30, uaPattern |-> 15,
     noRAF |-> 10, noLocalStorage |-> 10, noCanvas |-> 15]

MatchedSignals(e) ==
    {[kind |-> k, pattern |-> ""] :
        k \in {k \in {"webdriver", "phantom", "callPhantom", "noRAF",
                      "noLocalStorage", "noCanvas"} : e[k]}}
    \cup {[kind |-> "uaPattern", pattern |-> p] : p \in UaHits(e.ua)}

RECURSIVE SumWeights(_)
SumWeights(S) ==
    IF S = {} THEN 0
    ELSE LET x == CHOOSE x \in S : TRUE
         IN SignalWeight[x.kind] + SumWeights(S \ {x})

----------------------------------------------------------------------------
(* Properties *)

Attempts == BagToSet(inflight)

PassesOtherChecks == env.snap.hasFetch /\ ~env.snap.honeypot

\* C1: a fresh client whose bot score is below 50 gets its first 3 attempts of a
\* 60 000 ms window admitted and its 4th rejected by the rate limit: in the
\* first window of the first page load at most 3 attempts are admitted, and none
\* is rejected by the rate limit before 3 were admitted.
C1_FourthAttemptRejected ==
    (/\ session.id = 0
     /\ env.prior = NoRecord
     /\ now <= rateLimitWindow
     /\ botScore < BotThreshold
     /\ PassesOtherChecks)
    => /\ admitted <= maxDownloadsPerWindow
       /\ ended.pc = "blockedRate" => admitted >= maxDownloadsPerWindow

\* C2: two tokens issued in the same session at different times are different.
C2_TokensDiffer ==
    \A x, y \in issued :
        (x.session = y.session /\ x.at # y.at) => x.token # y.token

C4_RejectedLeavesWindow ==
    [][(clicks' = clicks + 1 /\ ended'.pc \in {"blockedSecurity", "blockedRate"})
       => (rateLimitCount' = rateLimitCount /\ storage' = storage)]_vars

\* C4 witness: a click rejected by the rate limit with the count at 3.
C4_Witness ==
    /\ ended.pc = "blockedRate"
    /\ rateLimitCount = maxDownloadsPerWindow
    /\ storage.present /\ storage.count = maxDownloadsPerWindow

\* C5: the rate-limit check resets an expired window before it compares, so no
\* click made more than 60 000 ms after the window start is rejected by the
\* rate limit.
C5_ExpiredWindowAdmits ==
    ~(ended.pc = "blockedRate" /\ WindowExpired(storage, now))

\* C6: when the primary telemetry endpoint rejects, an attempt that passed the
\* gates goes on to the verification probe, and the probe alone decides how it
\* ends: success when the probe succeeds.
C6_TelemetryRejectionIsolated ==
    /\ \A att \in Attempts : att.tele = "rejected" => (att.pc = "verifying" /\ att.started)
    /\ ended.tele = "rejected"
       => \/ ended.pc = "success" /\ ended.probe = "ok"
          \/ ended.pc = "error" /\ ended.probe = "failed"

\* C6 witness: an attempt that reached success although the endpoint rejected
\* its download_started event and the beacon fallback threw.
C6_Witness ==
    /\ env.primary = "reject"
    /\ env.sinks.beacon = "throws"
    /\ ended.tele = "rejected"
    /\ ended.pc = "success"

\* C7: the promise of sendAnalytics is never rejected, whichever sinks fail: it
\* is resolved, or its fetch is still outstanding.
C7_EmitNeverRejects ==
    \A i \in DOMAIN log :
        /\ log[i].status \in {"pending", "resolved"}
        /\ log[i].status = "pending"
           => ("endpoint" \in log[i].tried /\ "beacon" \notin log[i].tried)

\* C7 witness: a call of sendAnalytics that resolved although the fetch was
\* rejected and the beacon fallback threw.
C7_Witness ==
    \E i \in DOMAIN log :
        /\ env.sinks.beacon = "throws"
        /\ "beacon" \in log[i].tried
        /\ log[i].status = "resolved"

\* C8: every configured sink is attempted for every event, whatever the other
\* sinks do.
C8_EverySinkAttempted ==
    \A i \in DOMAIN log :
        /\ env.sinks.cf # "absent" => "cloudflare" \in log[i].tried
        /\ env.sinks.gtag # "absent" => "gtag" \in log[i].tried
        /\ "endpoint" \in log[i].tried

\* C9: an admitted attempt waiting for the transmission of its download_started
\* event eventually goes on to initiate the download, whatever the sinks do.
C9_TelemetryNeverBlocks ==
    (\E att \in Attempts : att.pc = "telemetry")
    ~> (\A att \in Attempts : att.pc # "telemetry")

\* C10: an attempt waiting for the verification probe eventually reaches a
\* terminal state, even when the probe never completes.
C10_PreparingEnds ==
    (\E att \in Attempts : att.pc = "verifying")
    ~> (\A att \in Attempts : att.pc # "verifying")

\* C11: at most one attempt is in flight at any time: two executions of
\* initiateDownload never overlap.
C11_OneAttemptInFlight == BagCardinality(inflight) <= 1

\* C12: all the controls bound to the download action show the same state: none
\* is idle and enabled while another is in preparing, success or error.
C12_ControlsAgree ==
    \A c1, c2 \in Controls :
        /\ ControlState(buttons, c1).label = ControlState(buttons, c2).label
        /\ ControlState(buttons, c1).disabled = ControlState(buttons, c2).disabled

\* C13: in an environment without fetch / Promise an attempt is rejected by the
\* environment check before any gate check (bot score, honeypot, rate limit) is
\* evaluated.
C13_EnvironmentCheckedFirst ==
    (~env.snap.hasFetch /\ ended.pc # "none")
    => /\ ended.pc = "blockedSecurity"
       /\ \A i \in DOMAIN ended.checks :
             ended.checks[i] \notin {"botScore", "honeypot", "rateLimit"}

\* C14: in an environment missing a required capability (fetch, the secure random
\* source) an attempt never enters preparing and never ends in error: it is
\* rejected while the controls are idle.
C14_CapabilityGated ==
    (~env.snap.hasFetch \/ ~env.snap.hasCrypto)
    => /\ inflight = EmptyBag
       /\ ended.pc \in {"none", "blockedSecurity"}
       /\ \A b \in Buttons : buttons[b] = IdleButton

\* C15: every attempt blocked by the security gate sends a security_event through
\* the telemetry dispatcher.
C15_SecurityEventEmitted ==
    ended.pc = "blockedSecurity"
    => \/ \E i \in DOMAIN ended.events : ended.events[i].ev = "security_event"
       \/ \E i \in DOMAIN log : log[i].ev = "security_event"

\* C16: once computed at initialisation, the bot score of a page load is never
\* changed by a later operation, even when the signals of the environment change.
C16_BotScoreFixed ==
    [][session' = session => botScore' = botScore]_vars

\* C16 witness: an attempt blocked on the score computed at load, although the
\* signals have changed since and would now score 0.
C16_Witness ==
    /\ botScore > BotThreshold
    /\ CalculateBotScore(env.snap) = 0
    /\ ended.pc = "blockedSecurity"

\* C17: the bot score is min(100, the sum of the fixed weights of the matched
\* signals), each matched signal counted once: an integer in 0..100 that the
\* snapshot alone determines.
C17_ScoreIsClampedSum ==
    /\ botScore \in 0..100
    /\ botScore = Min(SumWeights(MatchedSignals(env.snap)), 100)

\* C17 witness: a snapshot whose weights add up to more than 100, scored on the
\* first load and again on a later one.
C17_Witness ==
    /\ SumWeights(MatchedSignals(env.snap)) > 100
    /\ Cardinality(UaHits(env.snap.ua)) >= 2
    /\ session.id > 0
    /\ botScore = 100

\* C18: an attempt rejected by a gate has no effect other than its advisory: it
\* changes no control (an idle control stays idle), starts no call that stays in
\* flight, mints no token, sends no event, issues no download or probe, records
\* no conversion, and shows the one advisory of the gate that rejected it.
C18_RejectedOnlyAdvises ==
    [][(clicks' = clicks + 1 /\ ended'.pc \in {"blockedSecurity", "blockedRate"})
       => /\ buttons' = buttons
          /\ timers' = timers
          /\ inflight' = inflight
          /\ conversions' = conversions
          /\ admitted' = admitted
          /\ ended'.token = <<>>
          /\ ended'.events = <<>>
          /\ ended'.tele = "none" /\ ended'.probe = "none" /\ ~ended'.started
          /\ ended'.advisory =
                (IF ended'.pc = "blockedSecurity" THEN "security" ELSE "rateLimit")]_vars

\* C18 witness: a click rejected by the rate limit on a page whose controls are
\* idle, after three downloads of this page load.
C18_Witness ==
    /\ ended.pc = "blockedRate"
    /\ ended.advisory = "rateLimit"
    /\ admitted >= maxDownloadsPerWindow
    /\ \A b \in Buttons : buttons[b] = IdleButton

\* C19: a control changes state only along idle -> preparing (an admitted
\* click), preparing -> success, preparing -> error, success -> idle and
\* error -> idle (the timers).  A click that fails before its first await goes
\* through preparing to error in one step.
C19_ControlTransitions ==
    [][session' = session
       => \A b \in Buttons :
            LET old == buttons[b].label
                new == buttons'[b].label
            IN IF admitted' = admitted + 1
               THEN old = "idle" /\ new \in {"preparing", "error"}
               ELSE \/ new = old
                    \/ <<old, new>> \in {<<"preparing", "success">>,
                                          <<"preparing", "error">>,
                                          <<"success", "idle">>,
                                          <<"error", "idle">>}]_vars

\* C20: a revert timer left over from an earlier outcome never alters a control
\* that a later attempt has put in preparing.
C20_NoStaleRevert ==
    [][(session' = session /\ BagCardinality(timers') < BagCardinality(timers))
       => \A b \in Buttons :
            buttons[b].label = "preparing" => buttons'[b] = buttons[b]]_vars

\* C21: in a single tab the rate-limit count, in memory and persisted, never
\* exceeds the 3 downloads a window allows, whatever the interleaving of clicks
\* on buttons and links with the steps of the attempts in flight.
C21_CountWithinLimit ==
    /\ rateLimitCount <= maxDownloadsPerWindow
    /\ storage.present => storage.count <= maxDownloadsPerWindow

\* C22: page loads grant no extra quota: while the run is shorter than one
\* window (a fresh client, every page load and click within the first 60 000 ms),
\* at most 3 downloads are initiated (the hidden link clicked), also when the
\* page is loaded again while an attempt is still preparing.
C22_ReloadsGrantNoQuota ==
    (env.prior = NoRecord /\ now < rateLimitWindow)
        => downloads <= maxDownloadsPerWindow

\* C23: recording an accepted attempt increments the count by exactly 1,
\* persists it and leaves the window start unchanged; the window start changes
\* only when a page load resets an expired window.
C23_RecordKeepsWindowStart ==
    [][ /\ (session' = session /\ rateLimitCount' # rateLimitCount)
            => /\ rateLimitCount' = rateLimitCount + 1
               /\ storage'.present /\ storage'.count = rateLimitCount'
               /\ storage.present => storage'.windowStart = storage.windowStart
        /\ (storage.present /\ storage'.windowStart # storage.windowStart)
            => (session' # session /\ WindowExpired(storage, now)) ]_vars

C25_TabsOverwriteRecord ==
    storage.present => (storage.count <= rateLimitCount \/ storage.count <= peer.count)

C25_Witness ==
    /\ peer.open /\ session.id = 0 /\ now < rateLimitWindow
    /\ inflight = EmptyBag /\ peer.telemetry = 0 /\ peer.verifying = 0
    /\ admitted <= maxDownloadsPerWindow /\ rateLimitCount = admitted
    /\ peer.admitted <= maxDownloadsPerWindow /\ peer.count = peer.admitted
    /\ admitted + peer.admitted > maxDownloadsPerWindow
    /\ storage.present /\ storage.count < admitted + peer.admitted

\* C26 (as the spec states it): within one attempt the steps occur in the fixed
\* order gate checks, token issuance, transition of the controls to preparing,
\* telemetry of the attempt.
C26_TokenBeforePreparing ==
    \A att \in Attempts \cup {ended} :
        /\ Len(att.order) <= 4
        /\ att.order = SubSeq(<<"gates", "token", "preparing", "telemetry">>,
                              1, Len(att.order))

\* C26 (amended): within one attempt the steps occur in the fixed order gate
\* checks, transition of the controls to preparing, token issuance, telemetry
\* of the attempt; a call whose token cannot be minted has already put the
\* controls into preparing.
C26_PreparingBeforeToken ==
    \A att \in Attempts \cup {ended} :
        /\ Len(att.order) <= Len(StepOrder)
        /\ att.order = SubSeq(StepOrder, 1, Len(att.order))
        /\ (att.pc = "error" /\ att.token = <<>>)
              => (att.order = <<"gates", "preparing">> /\ ~env.snap.hasCrypto)

C26_Witness ==
    /\ ended.pc = "success"
    /\ ended.order = StepOrder
    /\ ended.token # <<>>
    /\ ended.events[1].ev = "download_started"

\* C27: the persisted conversion array serves attribution only: whether it is
\* absent, populated, unparsable or unwritable changes neither whether an
\* attempt is admitted nor whether it ends in success or error.  In an
\* environment that is fault free but for the array, an attempt that passes the
\* gates is admitted and initiates its download, and the probe alone decides how
\* it ends, as it does when the array is absent.
C27_ConversionsDoNotDecide ==
    env.rateStore = "ok" =>
        /\ ended.pc = "success" <=> ended.probe = "ok"
        /\ ended.pc = "error" <=> ended.probe = "failed"
        /\ ended.pc = "error" => ended.started

\* C28: only an attempt that ends in success increments the rate-limit count;
\* an attempt that ends in error (failed verification, token or telemetry
\* exception, failed storage write) leaves the in-memory count as it was.
C28_OnlySuccessCounts ==
    [][ (session' = session /\ rateLimitCount' # rateLimitCount)
            => ended'.pc = "success" ]_vars

\* C29: within one attempt the download_started event is handed to the
\* dispatcher, and its delivery attempt has finished, before the
\* download_verified event or an error event of that attempt is emitted.
C29_StartedSettledBeforeTerminal ==
    \A att \in Attempts \cup {ended} :
        \A i, j \in DOMAIN att.events :
            /\ (att.events[j].ev = "download_started"
                    /\ att.events[i].ev \in {"engagement", "error"})
                => (j < i /\ att.events[j].status = "resolved")
            /\ att.events[i].ctx \in {"download_verified", "download_verification"}
                => att.events[1].ev = "download_started"

C29_Witness ==
    /\ ended.pc = "success" /\ ended.tele = "ok"
    /\ Len(ended.events) = 2
    /\ ended.events[1].ev = "download_started"
    /\ ended.events[1].status = "resolved"
    /\ "endpoint" \in ended.events[1].tried
    /\ ended.events[2].ctx = "download_verified"

\* C30: an attempt emits at most one terminal telemetry event: exactly one
\* download_verified event when the probe succeeds, exactly one error event
\* when it fails, never two events for the same outcome.
C30_OneTerminalEvent ==
    \A att \in Attempts \cup {ended} :
        LET verified == {i \in DOMAIN att.events : att.events[i].ctx = "download_verified"}
            errors == {i \in DOMAIN att.events : att.events[i].ev = "error"}
        IN /\ Cardinality(verified \cup errors) <= 1
           /\ att.probe = "ok" => Cardinality(verified) = 1
           /\ att.probe = "failed" => Cardinality(errors) = 1

====
